---- MODULE Spec2Model ----
(***************************************************************************)
(* License expression compatibility engine of License_Tool.                *)
(*                                                                         *)
(* Python strings are modelled as sequences of one-character strings, so   *)
(* that strip(), replace(), upper() and the tokenizer work on characters   *)
(* as the code does.  Python's None is the one-element sequence None,      *)
(* whose element is no character.                                          *)
(***************************************************************************)
EXTENDS Integers, Sequences, FiniteSets, TLC

VARIABLES matrix, call

vars == <<matrix, call>>

(***************************************************************************)
(* Characters and Python string primitives                                 *)
(***************************************************************************)
None == <<"None">>

Whitespace == {" ", "\t"}

LowerLetters == <<"a","b","c","d","e","f","g","h","i","j","k","l","m",
                  "n","o","p","q","r","s","t","u","v","w","x","y","z">>

UpperLetters == <<"A","B","C","D","E","F","G","H","I","J","K","L","M",
                  "N","O","P","Q","R","S","T","U","V","W","X","Y","Z">>

UpperCh(c) ==
    IF \E i \in DOMAIN LowerLetters : LowerLetters[i] = c
    THEN UpperLetters[CHOOSE i \in DOMAIN LowerLetters : LowerLetters[i] = c]
    ELSE c

LowerCh(c) ==
    IF \E i \in DOMAIN UpperLetters : UpperLetters[i] = c
    THEN LowerLetters[CHOOSE i \in DOMAIN UpperLetters : UpperLetters[i] = c]
    ELSE c

\* str.upper()
upper(s) == [i \in 1..Len(s) |-> UpperCh(s[i])]

\* str.lower()
lower(s) == [i \in 1..Len(s) |-> LowerCh(s[i])]

RECURSIVE lstrip(_)
lstrip(s) ==
    IF s # <<>> /\ Head(s) \in Whitespace THEN lstrip(Tail(s)) ELSE s

RECURSIVE rstrip(_)
rstrip(s) ==
    IF s # <<>> /\ s[Len(s)] \in Whitespace
    THEN rstrip(SubSeq(s, 1, Len(s) - 1))
    ELSE s

\* str.strip()
strip(s) == rstrip(lstrip(s))

\* s[i:].startswith(pat), i counted from 1
StartsAt(s, pat, i) ==
    /\ i + Len(pat) - 1 <= Len(s)
    /\ \A k \in 1..Len(pat) : s[i + k - 1] = pat[k]

\* pat in s
Contains(s, pat) == \E i \in 1..(Len(s) + 1) : StartsAt(s, pat, i)

\* str.replace(pat, rep): every non-overlapping occurrence, left to right
RECURSIVE replace(_, _, _)
replace(s, pat, rep) ==
    IF s = <<>> THEN <<>>
    ELSE IF StartsAt(s, pat, 1)
         THEN rep \o replace(SubSeq(s, Len(pat) + 1, Len(s)), pat, rep)
         ELSE <<Head(s)>> \o replace(Tail(s), pat, rep)

(***************************************************************************)
(* String literals used by the code                                        *)
(***************************************************************************)
S_with_sp == <<" ","w","i","t","h"," ">>
S_With_sp == <<" ","W","i","t","h"," ">>
S_WITH_sp == <<" ","W","I","T","H"," ">>
S_with == <<" ","w","i","t","h">>
S_WITH == <<" ","W","I","T","H">>
S_plus == <<"+">>
S_or_later == <<"-","o","r","-","l","a","t","e","r">>
W_WITH == <<"W","I","T","H">>
W_AND == <<"A","N","D">>
W_OR == <<"O","R">>
S_UNKNOWN == <<"U","N","K","N","O","W","N">>
S_NOASSERTION == <<"N","O","A","S","S","E","R","T","I","O","N">>
S_NONE == <<"N","O","N","E">>

(***************************************************************************)
(* License identifiers                                                     *)
(***************************************************************************)
MIT == <<"M","I","T">>
ISC == <<"I","S","C">>
X11 == <<"X","1","1">>
GPL3 == <<"G","P","L","-","3",".","0">>
GPL3plus == GPL3 \o S_plus
GPL3orlater == GPL3 \o S_or_later
GPL2plus == <<"G","P","L","-","2",".","0","+">>
GPL2orlater == <<"G","P","L","-","2",".","0">> \o S_or_later
LGPL3plus == <<"L","G","P","L","-","3",".","0","+">>
LGPL3orlater == <<"L","G","P","L","-","3",".","0">> \o S_or_later
LGPL21plus == <<"L","G","P","L","-","2",".","1","+">>
LGPL21orlater == <<"L","G","P","L","-","2",".","1">> \o S_or_later
Apache2 == <<"A","p","a","c","h","e","-","2",".","0">>
LGPL21 == <<"L","G","P","L","-","2",".","1">>
Exc == <<"E","x","c">>

(***************************************************************************)
(* compat_utils.py                                                         *)
(***************************************************************************)
_SYNONYMS ==
    (GPL3plus :> GPL3orlater) @@ (GPL2plus :> GPL2orlater) @@
    (LGPL3plus :> LGPL3orlater) @@ (LGPL21plus :> LGPL21orlater)

\* The statements of normalize_symbol, each taking the value of s before it
\* and giving the value of s after it.

\* if " with " in s: s = s.replace(" with ", " WITH ")
_norm_with_lower(s) ==
    IF Contains(s, S_with_sp) THEN replace(s, S_with_sp, S_WITH_sp) ELSE s

\* if " With " in s: s = s.replace(" With ", " WITH ")
_norm_with_title(s) ==
    IF Contains(s, S_With_sp) THEN replace(s, S_With_sp, S_WITH_sp) ELSE s

\* if " with" in s and " WITH" not in s: s = s.replace(" with", " WITH")
_norm_with_tail(s) ==
    IF Contains(s, S_with) /\ ~Contains(s, S_WITH) THEN replace(s, S_with, S_WITH) ELSE s

\* _norm_plus as it would be if only the alias table handled the "+"
_norm_plus_alias_only(s) == s

\* if "+" in s and "-or-later" not in s: s = s.replace("+", "-or-later")
_norm_plus(s) ==
    IF Contains(s, S_plus) /\ ~Contains(s, S_or_later)
    THEN replace(s, S_plus, S_or_later) ELSE s

\* return _SYNONYMS.get(s, s)
_norm_synonym(s) == IF s \in DOMAIN _SYNONYMS THEN _SYNONYMS[s] ELSE s

\* normalize_symbol as it would be without s = sym.strip()
normalize_symbol_untrimmed(sym) ==
    IF sym = None \/ sym = <<>> THEN sym
    ELSE _norm_synonym(_norm_plus(_norm_with_tail(_norm_with_title(
             _norm_with_lower(sym)))))

normalize_symbol(sym) ==
    IF sym = None \/ sym = <<>> THEN sym
    ELSE _norm_synonym(_norm_plus(_norm_with_tail(_norm_with_title(
             _norm_with_lower(strip(sym))))))

(***************************************************************************)
(* parser_spdx.py                                                          *)
(***************************************************************************)
\* "node is None"
NoneNode == [tag |-> "None"]

Leaf(value) == [tag |-> "Leaf", value |-> normalize_symbol(value)]

And(left, right) == [tag |-> "And", left |-> left, right |-> right]

Or(left, right) == [tag |-> "Or", left |-> left, right |-> right]

\* first loop of _tokenize: split on parentheses and whitespace
RECURSIVE _split(_, _, _)
_split(s, i, buf) ==
    LET flush == IF buf # <<>> THEN <<buf>> ELSE <<>>
    IN  IF i > Len(s) THEN flush
        ELSE IF s[i] \in {"(", ")"}
             THEN flush \o <<<<s[i]>>>> \o _split(s, i + 1, <<>>)
             ELSE IF s[i] \in Whitespace
                  THEN flush \o _split(s, i + 1, <<>>)
                  ELSE _split(s, i + 1, Append(buf, s[i]))

\* second loop of _tokenize: "<t> WITH <t>" becomes one token
RECURSIVE _merge_with(_, _)
_merge_with(tokens, i) ==
    IF i > Len(tokens) THEN <<>>
    ELSE IF i + 2 <= Len(tokens) /\ upper(tokens[i + 1]) = W_WITH
         THEN <<tokens[i] \o S_WITH_sp \o tokens[i + 2]>> \o _merge_with(tokens, i + 3)
         ELSE <<tokens[i]>> \o _merge_with(tokens, i + 1)

_tokenize(expr) ==
    IF expr = None \/ expr = <<>> THEN <<>>
    ELSE _merge_with(_split(strip(expr), 1, <<>>), 1)

\* idx counts from 1; peek() past the end is None
peek(tokens, idx) == IF idx <= Len(tokens) THEN tokens[idx] ELSE None

RECURSIVE parse_primary(_, _), parse_and(_, _), parse_or(_, _)
RECURSIVE _and_loop(_, _, _), _or_loop(_, _, _)

\* Each parse function returns the node and the index after what it consumed.
\* A local variable that the code reads more than once is the parameter of
\* the operator that continues the function.

\* _close_paren as it would be if a missing ")" discarded the subtree
_close_paren_strict(tokens, r) ==
    IF peek(tokens, r.idx) = <<")">> THEN [node |-> r.node, idx |-> r.idx + 1]
    ELSE [node |-> NoneNode, idx |-> r.idx]

\* parse_primary after node = parse_or(): if peek() == ")": consume()
_close_paren(tokens, r) ==
    IF peek(tokens, r.idx) = <<")">> THEN [node |-> r.node, idx |-> r.idx + 1] ELSE r

parse_primary(tokens, idx) ==
    IF peek(tokens, idx) = None THEN [node |-> NoneNode, idx |-> idx]
    ELSE IF peek(tokens, idx) = <<"(">>
         THEN _close_paren(tokens, parse_or(tokens, idx + 1))
         ELSE [node |-> Leaf(peek(tokens, idx)), idx |-> idx + 1]

\* left = And(left, right), with r what parse_primary() returned for right
_and_step(tokens, left, r) == _and_loop(tokens, And(left, r.node), r.idx)

\* the while loop of parse_and
_and_loop(tokens, left, idx) ==
    IF peek(tokens, idx) # None /\ upper(peek(tokens, idx)) = W_AND
    THEN _and_step(tokens, left, parse_primary(tokens, idx + 1))
    ELSE [node |-> left, idx |-> idx]

\* parse_and after left = parse_primary()
_and_start(tokens, l) == _and_loop(tokens, l.node, l.idx)

parse_and(tokens, idx) == _and_start(tokens, parse_primary(tokens, idx))

\* left = Or(left, right), with r what parse_and() returned for right
_or_step(tokens, left, r) == _or_loop(tokens, Or(left, r.node), r.idx)

\* the while loop of parse_or as it would be if the right operand were a primary
_or_loop_primary(tokens, left, idx) ==
    IF peek(tokens, idx) # None /\ upper(peek(tokens, idx)) = W_OR
    THEN _or_step(tokens, left, parse_primary(tokens, idx + 1))
    ELSE [node |-> left, idx |-> idx]

\* the while loop of parse_or
_or_loop(tokens, left, idx) ==
    IF peek(tokens, idx) # None /\ upper(peek(tokens, idx)) = W_OR
    THEN _or_step(tokens, left, parse_and(tokens, idx + 1))
    ELSE [node |-> left, idx |-> idx]

\* parse_or after left = parse_and()
_or_start(tokens, l) == _or_loop(tokens, l.node, l.idx)

parse_or(tokens, idx) == _or_start(tokens, parse_and(tokens, idx))

\* _parse_tokens as it would be if no tokens gave a leaf of the empty symbol
_parse_tokens_leaf(tokens) ==
    IF tokens = <<>> THEN Leaf(<<>>) ELSE parse_or(tokens, 1).node

\* parse_spdx after tokens = _tokenize(expr)
_parse_tokens(tokens) == IF tokens = <<>> THEN NoneNode ELSE parse_or(tokens, 1).node

parse_spdx(expr) == _parse_tokens(_tokenize(expr))

(***************************************************************************)
(* matrix.py: the matrix resource and its one-time load                    *)
(*                                                                         *)
(* A resource is [shape |-> "absent"] (file missing, unreadable or empty), *)
(* [shape |-> "matrix", rows |-> ...] for {"matrix": {main: {dep: v}}}, or *)
(* [shape |-> "list" | "licenses", entries |-> ...] for a list of          *)
(* {"name", "compatibilities": [{"name", "compatibility", "status"}]}.     *)
(* JSON objects are sequences of items in document order; a missing key    *)
(* or a non-string scalar is None; isdict and islist hold the result of    *)
(* isinstance(row, dict) and isinstance(compat_list, list).                *)
(***************************************************************************)
S_yes == <<"y","e","s">>
S_same == <<"s","a","m","e">>
S_no == <<"n","o">>
S_conditional == <<"c","o","n","d","i","t","i","o","n","a","l">>

\* _coerce_status after s = status_raw.strip().lower()
_coerce_lowered(s) ==
    IF s \in {S_yes, S_same} THEN "yes"
    ELSE IF s = S_no THEN "no"
    ELSE IF s = S_conditional THEN "conditional"
    ELSE "unknown"

_coerce_status(status_raw) ==
    IF status_raw = None THEN "unknown"
    ELSE _coerce_lowered(lower(strip(status_raw)))

\* d[k] = v on a dict d
DictSet(d, k, v) == [x \in (DOMAIN d) \cup {k} |-> IF x = k THEN v ELSE d[x]]

EmptyDict == <<>>

\* if coerced in {...}: normalized[main_n][normalize_symbol(k)] = coerced
_store_old(row, k, coerced) ==
    IF coerced \in {"yes", "no", "conditional", "unknown"}
    THEN DictSet(row, normalize_symbol(k), coerced)
    ELSE row

\* inner loop, old structure: for k, v in row.items()
RECURSIVE _load_row_old(_, _, _)
_load_row_old(items, i, row) ==
    IF i > Len(items) THEN row
    ELSE _load_row_old(items, i + 1,
             _store_old(row, items[i].name, _coerce_status(items[i].value)))

\* outer loop, old structure: for main, row in matrix.items()
RECURSIVE _load_old(_, _, _)
_load_old(rows, i, normalized) ==
    IF i > Len(rows) THEN normalized
    ELSE _load_old(rows, i + 1,
             IF ~rows[i].isdict THEN normalized
             ELSE DictSet(normalized, normalize_symbol(rows[i].main),
                          _load_row_old(rows[i].row, 1, EmptyDict)))

\* _comp_status reading the "compatibility" key alone
_comp_status_compat_only(comp) == comp.compatibility

\* comp.get("compatibility") or comp.get("status")
_comp_status(comp) ==
    IF comp.compatibility \notin {None, <<>>} THEN comp.compatibility ELSE comp.status

\* inner loop, list structure: for comp in compat_list
RECURSIVE _load_row_list(_, _, _)
_load_row_list(comps, i, row) ==
    IF i > Len(comps) THEN row
    ELSE _load_row_list(comps, i + 1,
             IF comps[i].name \notin {None, <<>>}
             THEN DictSet(row, normalize_symbol(comps[i].name),
                          _coerce_status(_comp_status(comps[i])))
             ELSE row)

\* outer loop, list structure: for entry in data
RECURSIVE _load_list(_, _, _)
_load_list(entries, i, normalized) ==
    IF i > Len(entries) THEN normalized
    ELSE _load_list(entries, i + 1,
             IF entries[i].name \in {None, <<>>} \/ ~entries[i].islist
             THEN normalized
             ELSE DictSet(normalized, normalize_symbol(entries[i].name),
                          _load_row_list(entries[i].compatibilities, 1, EmptyDict)))

\* load_professional_matrix as it would be with a built-in table for a
\* resource that cannot be read
load_professional_matrix_fallback(data) ==
    IF data.shape = "absent"
    THEN DictSet(EmptyDict, <<"M","I","T">>, DictSet(EmptyDict, <<"M","I","T">>, "yes"))
    ELSE IF data.shape = "matrix" THEN _load_old(data.rows, 1, EmptyDict)
    ELSE IF data.shape \in {"list", "licenses"} THEN _load_list(data.entries, 1, EmptyDict)
    ELSE EmptyDict

load_professional_matrix(data) ==
    IF data.shape = "absent" THEN EmptyDict
    ELSE IF data.shape = "matrix" THEN _load_old(data.rows, 1, EmptyDict)
    ELSE IF data.shape \in {"list", "licenses"} THEN _load_list(data.entries, 1, EmptyDict)
    ELSE EmptyDict

\* _PRO_MATRIX, as get_matrix() returns it
get_matrix == matrix

(***************************************************************************)
(* Tri-state evaluation.  A trace line is a record: kind says which        *)
(* message it is, the other fields are the values formatted into it.       *)
(***************************************************************************)
Tri == {"yes", "no", "conditional", "unknown"}

Line(kind, x, y, status, note) ==
    [kind |-> kind, x |-> x, y |-> y, status |-> status, note |-> note, exc |-> <<>>]

\* "Espressione mancante o non riconosciuta"
LineMissing == Line("missing", <<>>, <<>>, "", "")

\* f"{node.value} -> {status} rispetto a {main_license}"
LineLeaf(value, status, main) == Line("leaf", value, main, status, "")

\* f"AND => {combined}", f"OR => {combined}"
LineOp(op, combined) == Line(op, <<>>, <<>>, combined, "")

\* "Nodo non riconosciuto"
LineUnrecognized == Line("unrecognized", <<>>, <<>>, "", "")

\* _hits as it would be if the loop accepted only yes and no
_hits_yes_no(row, candidates) ==
    {i \in DOMAIN candidates : /\ candidates[i] \in DOMAIN row
                                /\ row[candidates[i]] \in {"yes", "no"}}

\* the candidates whose status in row is one of yes, no, conditional
_hits(row, candidates) ==
    {i \in DOMAIN candidates : /\ candidates[i] \in DOMAIN row
                                /\ row[candidates[i]] \in {"yes", "no", "conditional"}}

\* _first_status as it would be if a miss counted as incompatible
_first_status_no(row, candidates, hits) ==
    IF hits = {} THEN "no"
    ELSE row[candidates[CHOOSE i \in hits : \A j \in hits : i <= j]]

\* the for loop of _lookup_status: the status of the first such candidate
_first_status(row, candidates, hits) ==
    IF hits = {} THEN "unknown"
    ELSE row[candidates[CHOOSE i \in hits : \A j \in hits : i <= j]]

\* _lookup_status after row = matrix.get(main_license)
_lookup_in_row(row, candidates) ==
    IF row = EmptyDict THEN "unknown"
    ELSE _first_status(row, candidates, _hits(row, candidates))

\* _lookup_status after candidates = [dep_license, normalize_symbol(...), ...]
_lookup_candidates(main_license, candidates) ==
    IF main_license \notin DOMAIN get_matrix THEN "unknown"
    ELSE _lookup_in_row(get_matrix[main_license], candidates)

_lookup_status(main_license, dep_license) ==
    _lookup_candidates(main_license,
        <<dep_license, normalize_symbol(dep_license), strip(dep_license)>>)

\* _combine_and as it would be if unknown operands stayed unknown
_combine_and_unknown(a, b) ==
    IF a = "no" \/ b = "no" THEN "no"
    ELSE IF a = "yes" /\ b = "yes" THEN "yes"
    ELSE IF a = "unknown" \/ b = "unknown" THEN "unknown"
    ELSE "conditional"

\* _combine_and as it would be if only the left operand could veto
_combine_and_left_no(a, b) ==
    IF a = "no" THEN "no"
    ELSE IF a = "yes" /\ b = "yes" THEN "yes"
    ELSE "conditional"

_combine_and(a, b) ==
    IF a = "no" \/ b = "no" THEN "no"
    ELSE IF a = "yes" /\ b = "yes" THEN "yes"
    ELSE "conditional"

\* _combine_or as it would be if a single no decided
_combine_or_any_no(a, b) ==
    IF a = "yes" \/ b = "yes" THEN "yes"
    ELSE IF a = "no" \/ b = "no" THEN "no"
    ELSE "conditional"

_combine_or(a, b) ==
    IF a = "yes" \/ b = "yes" THEN "yes"
    ELSE IF a = "no" /\ b = "no" THEN "no"
    ELSE "conditional"

\* return status, [reason] of the Leaf branch
_leaf_result(value, status, main_license) ==
    [status |-> status, trace |-> <<LineLeaf(value, status, main_license)>>]

\* _op_result as it would be if the combination line came first
_op_result_first(op, combined, trace) ==
    [status |-> combined, trace |-> <<LineOp(op, combined)>> \o trace]

\* return combined, ltrace + rtrace + own + [f"{op} => {combined}"]
_op_result(op, combined, trace) ==
    [status |-> combined, trace |-> trace \o <<LineOp(op, combined)>>]

\* the And branch as it would be if it combined with the OR table
_and_result_or(l, r, own) ==
    _op_result("AND", _combine_or(l.status, r.status), l.trace \o r.trace \o own)

\* the And branch after both sides are evaluated; own holds the lines the
\* node adds before its combination line
_and_result(l, r, own) ==
    _op_result("AND", _combine_and(l.status, r.status), l.trace \o r.trace \o own)

\* the Or branch after both sides are evaluated
_or_result(l, r) ==
    _op_result("OR", _combine_or(l.status, r.status), l.trace \o r.trace)

\* _eval_node of compatibility.py
RECURSIVE _eval_node(_, _)
_eval_node(main_license, node) ==
    IF node = NoneNode THEN [status |-> "unknown", trace |-> <<LineMissing>>]
    ELSE IF node.tag = "Leaf"
    THEN _leaf_result(node.value, _lookup_status(main_license, node.value), main_license)
    ELSE IF node.tag = "And"
    THEN _and_result(_eval_node(main_license, node.left),
                     _eval_node(main_license, node.right), <<>>)
    ELSE IF node.tag = "Or"
    THEN _or_result(_eval_node(main_license, node.left),
                    _eval_node(main_license, node.right))
    ELSE [status |-> "unknown", trace |-> <<LineUnrecognized>>]

(***************************************************************************)
(* evaluator.py, the evaluator of the package: its leaf rule for           *)
(* exception clauses and its cross-compatibility lines follow the          *)
(* specification and the unit tests of the evaluator.                      *)
(***************************************************************************)
\* position of the first " WITH " in value, 0 when there is none
_with_index(value) ==
    IF Contains(value, S_WITH_sp)
    THEN CHOOSE i \in 1..Len(value) :
             /\ StartsAt(value, S_WITH_sp, i)
             /\ \A j \in 1..(i - 1) : ~StartsAt(value, S_WITH_sp, j)
    ELSE 0

\* the base identifier of "B WITH E"
_base_symbol(value) == strip(SubSeq(value, 1, _with_index(value) - 1))

\* the exception of "B WITH E"
_exception(value) ==
    strip(SubSeq(value, _with_index(value) + Len(S_WITH_sp), Len(value)))

\* leaf line of a symbol with an exception; note is "exception detected" or
\* "exception presence requires manual verification"
LineLeafExc(base, exc, status, main, note) ==
    [Line("leaf", base, main, status, note) EXCEPT !.exc = exc]

\* "Cross compatibility: X vs Y -> verdict"
LineCross(x, y, status) == Line("cross", x, y, status, "")

\* the result for a leaf "base WITH exc" whose base has the given status
_exc_result(base, exc, status, main_license) ==
    [status |-> status,
     trace |-> <<LineLeafExc(base, exc, status, main_license,
                     IF status \in {"yes", "unknown"} THEN "detected" ELSE "manual")>>]

\* the Leaf branch as it would be if the whole symbol "base WITH exc" were
\* looked up, as _eval_node of compatibility.py does
_eval_exc_whole(main_license, base, exc) ==
    _exc_result(base, exc, _lookup_status(main_license, base \o S_WITH_sp \o exc),
                main_license)

\* the Leaf branch when the symbol has an exception clause
_eval_exc(main_license, base, exc) ==
    _exc_result(base, exc, _lookup_status(main_license, base), main_license)

_eval_leaf(main_license, value) ==
    IF _with_index(value) > 0
    THEN _eval_exc(main_license, _base_symbol(value), _exception(value))
    ELSE _leaf_result(value, _lookup_status(main_license, value), main_license)

\* every Leaf symbol reachable in node, left to right
RECURSIVE _collect_leaves(_)
_collect_leaves(node) ==
    IF node = NoneNode THEN <<>>
    ELSE IF node.tag = "Leaf" THEN <<node.value>>
    ELSE IF node.tag \in {"And", "Or"}
    THEN _collect_leaves(node.left) \o _collect_leaves(node.right)
    ELSE <<>>

\* one line per pair (left leaf, right leaf)
_cross_line(x, y) == LineCross(x, y, _lookup_status(x, y))

\* the lines for the left symbols ls and the right symbols rs
_cross_lines(ls, rs) ==
    [k \in 1..(Len(ls) * Len(rs)) |->
        _cross_line(ls[((k - 1) \div Len(rs)) + 1], rs[((k - 1) % Len(rs)) + 1])]

\* _cross_checks as it would be if only the operands themselves were taken
_cross_checks_direct(left, right) ==
    _cross_lines(IF left.tag = "Leaf" THEN <<left.value>> ELSE <<>>,
                 IF right.tag = "Leaf" THEN <<right.value>> ELSE <<>>)

_cross_checks(left, right) == _cross_lines(_collect_leaves(left), _collect_leaves(right))

RECURSIVE eval_node(_, _)
eval_node(main_license, node) ==
    IF node = NoneNode THEN [status |-> "unknown", trace |-> <<LineMissing>>]
    ELSE IF node.tag = "Leaf" THEN _eval_leaf(main_license, node.value)
    ELSE IF node.tag = "And"
    THEN _and_result(eval_node(main_license, node.left),
                     eval_node(main_license, node.right),
                     _cross_checks(node.left, node.right))
    ELSE IF node.tag = "Or"
    THEN _or_result(eval_node(main_license, node.left),
                    eval_node(main_license, node.right))
    ELSE [status |-> "unknown", trace |-> <<LineUnrecognized>>]

(***************************************************************************)
(* checker.py.  file_licenses is the dict's items in insertion order, each *)
(* [path, expr].  A reason is the sequence of the parts that "; " joins.   *)
(* The result's field parsed lists the arguments of the parse_spdx calls   *)
(* the invocation made; it is not part of the returned dict.               *)
(***************************************************************************)
\* "Main license not found or invalid (UNKNOWN/NOASSERTION/NONE)"
ReasonMainInvalid == <<Line("main_invalid", <<>>, <<>>, "", "")>>

\* "Matrix not available or main license not in matric"
ReasonNotInMatrix == <<Line("not_in_matrix", <<>>, <<>>, "", "")>>

\* f"Esito: {hint}. Manual compliace verification required."
LineEsito(hint) == Line("esito", <<>>, <<>>, hint, "")

Issue(file_path, detected_license, compatible, reason) ==
    [file_path |-> file_path, detected_license |-> detected_license,
     compatible |-> compatible, reason |-> reason]

\* _issue_of as it would be if conditional counted as compatible
_issue_of_lenient(file_path, license_expr, status, trace) ==
    Issue(file_path, license_expr, status \in {"yes", "conditional"},
          IF status \in {"yes", "no"} THEN trace
          ELSE trace \o <<LineEsito(IF status = "conditional"
                                    THEN "conditional" ELSE "unknown")>>)

\* the if/elif/else on status and issues.append({...})
_issue_of(file_path, license_expr, status, trace) ==
    Issue(file_path, license_expr, status = "yes",
          IF status \in {"yes", "no"} THEN trace
          ELSE trace \o <<LineEsito(IF status = "conditional"
                                    THEN "conditional" ELSE "unknown")>>)

\* the loop body after status, trace = eval_node(main_license_n, node)
_issue_of_result(file_path, license_expr, res) ==
    _issue_of(file_path, license_expr, res.status, res.trace)

\* the loop body after license_expr = (license_expr or "").strip()
_check_expr(main_license_n, file_path, license_expr) ==
    [issue |-> _issue_of_result(file_path, license_expr,
                   eval_node(main_license_n, parse_spdx(license_expr))),
     parsed |-> license_expr]

\* body of the per-file loop of the normal branch
_check_file(main_license_n, item) ==
    _check_expr(main_license_n, item.path,
                strip(IF item.expr = None THEN <<>> ELSE item.expr))

\* _collect as it would be if the issues came out in reverse order
_collect_reversed(main_license_n, done) ==
    [main_license |-> main_license_n,
     issues |-> [i \in DOMAIN done |-> done[Len(done) + 1 - i].issue],
     parsed |-> [i \in DOMAIN done |-> done[i].parsed]]

\* the result of the normal branch, done[i] the i-th pass of the loop
_collect(main_license_n, done) ==
    [main_license |-> main_license_n,
     issues |-> [i \in DOMAIN done |-> done[i].issue],
     parsed |-> [i \in DOMAIN done |-> done[i].parsed]]

\* the branches that skip evaluation: every file gets the same reason
_all_files(main_license, file_licenses, reason) ==
    [main_license |-> main_license,
     issues |-> [i \in DOMAIN file_licenses |->
         Issue(file_licenses[i].path, file_licenses[i].expr, FALSE, reason)],
     parsed |-> <<>>]

\* _check as it would be if NOASSERTION were not among the sentinels
_check_two_sentinels(main_license, main_license_n, file_licenses) ==
    IF main_license_n \in {None, <<>>, S_UNKNOWN, S_NONE}
    THEN _all_files(IF main_license \in {None, <<>>} THEN S_UNKNOWN ELSE main_license,
                    file_licenses, ReasonMainInvalid)
    ELSE IF get_matrix = EmptyDict \/ main_license_n \notin DOMAIN get_matrix
    THEN _all_files(main_license_n, file_licenses, ReasonNotInMatrix)
    ELSE _collect(main_license_n,
             [i \in DOMAIN file_licenses |-> _check_file(main_license_n, file_licenses[i])])

\* what a call that raised would leave in place of its result
Raised(error) == [raises |-> error]

\* _check as it would be if a null reference raised
_check_raising(main_license, main_license_n, file_licenses) ==
    IF main_license = None THEN Raised("invalid reference license")
    ELSE IF main_license_n \in {None, <<>>, S_UNKNOWN, S_NOASSERTION, S_NONE}
    THEN _all_files(IF main_license \in {None, <<>>} THEN S_UNKNOWN ELSE main_license,
                    file_licenses, ReasonMainInvalid)
    ELSE IF get_matrix = EmptyDict \/ main_license_n \notin DOMAIN get_matrix
    THEN _all_files(main_license_n, file_licenses, ReasonNotInMatrix)
    ELSE _collect(main_license_n,
             [i \in DOMAIN file_licenses |-> _check_file(main_license_n, file_licenses[i])])

\* check_compatibility after main_license_n = normalize_symbol(main_license)
_check(main_license, main_license_n, file_licenses) ==
    IF main_license_n \in {None, <<>>, S_UNKNOWN, S_NOASSERTION, S_NONE}
    THEN _all_files(IF main_license \in {None, <<>>} THEN S_UNKNOWN ELSE main_license,
                    file_licenses, ReasonMainInvalid)
    ELSE IF get_matrix = EmptyDict \/ main_license_n \notin DOMAIN get_matrix
    THEN _all_files(main_license_n, file_licenses, ReasonNotInMatrix)
    ELSE _collect(main_license_n,
             [i \in DOMAIN file_licenses |-> _check_file(main_license_n, file_licenses[i])])

\* check_compatibility as it would be if the row test used the raw reference
check_compatibility_raw(main_license, file_licenses) ==
    _check(main_license, IF main_license = None THEN None ELSE strip(main_license),
           file_licenses)

check_compatibility(main_license, file_licenses) ==
    _check(main_license, normalize_symbol(main_license), file_licenses)

(***************************************************************************)
(* Inputs                                                                  *)
(***************************************************************************)
MaxFiles == 2
MaxOps == 2
MaxWords == 4
MaxTokens == 4
MaxStepTokens == 3

sp == <<" ">>

\* raw status strings of the matrix resource
R_yes == S_yes
R_Yes == <<"Y","e","s">>
R_Same == <<"S","a","m","e">>
R_no == S_no
R_NO_sp == <<" ","N","O"," ">>
R_conditional == S_conditional
R_Conditional == <<"C","o","n","d","i","t","i","o","n","a","l">>
R_maybe == <<"m","a","y","b","e">>

Item(name, value) == [name |-> name, value |-> value]

Row(main, items) == [main |-> main, isdict |-> TRUE, row |-> items]

Comp(name, compatibility, status) ==
    [name |-> name, compatibility |-> compatibility, status |-> status]

Entry(name, comps) == [name |-> name, islist |-> TRUE, compatibilities |-> comps]

ResourceAbsent == [shape |-> "absent"]

\* structure (a)
ResourceOld ==
    [shape |-> "matrix",
     rows |-> <<
        Row(MIT, <<Item(MIT, R_yes), Item(Apache2, R_yes), Item(GPL3, R_no),
                   Item(LGPL21, R_conditional), Item(ISC, R_maybe),
                   Item(GPL3plus, R_no)>>),
        Row(GPL3, <<Item(GPL3, R_yes), Item(MIT, R_yes), Item(Apache2, R_no),
                    Item(LGPL21, R_conditional)>>),
        Row(GPL3plus, <<Item(GPL3plus, R_yes), Item(GPL3, R_yes), Item(MIT, R_yes),
                        Item(Apache2, None)>>),
        [main |-> X11, isdict |-> FALSE, row |-> <<>>] >>]

\* structure (b): the same judgments
ResourceList ==
    [shape |-> "list",
     entries |-> <<
        Entry(MIT, <<Comp(MIT, R_Same, None), Comp(Apache2, R_Yes, None),
                     Comp(GPL3, None, R_NO_sp), Comp(LGPL21, R_Conditional, None),
                     Comp(ISC, R_maybe, R_yes), Comp(GPL3plus, R_no, None)>>),
        Entry(GPL3, <<Comp(GPL3, R_Same, None), Comp(MIT, <<>>, R_Yes),
                      Comp(Apache2, R_no, None), Comp(LGPL21, None, R_conditional),
                      Comp(None, R_yes, None)>>),
        Entry(GPL3plus, <<Comp(GPL3orlater, R_Same, None), Comp(GPL3, R_yes, None),
                          Comp(MIT, R_yes, None), Comp(Apache2, None, None)>>),
        Entry(None, <<Comp(MIT, R_yes, None)>>),
        [name |-> X11, islist |-> FALSE, compatibilities |-> <<>>] >>]

\* structure (c): the scenario matrix {MIT: {MIT: Yes, Apache-2.0: Yes, GPL-3.0: No}}
ResourceLicenses ==
    [shape |-> "licenses",
     entries |-> <<
        Entry(MIT, <<Comp(MIT, R_Yes, None), Comp(Apache2, R_Yes, None),
                     Comp(GPL3, R_no, None)>>) >>]

\* the JSON document []
ResourceEmptyList == [shape |-> "list", entries |-> <<>>]

\* a JSON object with neither "matrix" nor "licenses", such as {}
ResourceEmptyDict == [shape |-> "dict"]

Resources ==
    {ResourceAbsent, ResourceEmptyList, ResourceEmptyDict,
     ResourceOld, ResourceList, ResourceLicenses}

\* judgment tables: a status for every (reference, dependency) pair
JRefSeq == <<MIT, GPL3plus>>
JDepSeq == <<MIT, GPL3plus>>
JStatuses == {R_Yes, R_Same, R_NO_sp, R_Conditional, R_maybe}
Range(s) == {s[i] : i \in DOMAIN s}
JudgmentTables == [Range(JRefSeq) -> [Range(JDepSeq) -> JStatuses]]

\* the judgments j as {"matrix": {ref: {dep: status}}}
ShapeA(j) ==
    [shape |-> "matrix",
     rows |-> [r \in DOMAIN JRefSeq |->
                 Row(JRefSeq[r], [d \in DOMAIN JDepSeq |->
                        Item(JDepSeq[d], j[JRefSeq[r]][JDepSeq[d]])])]]

\* the judgments j as [{name, compatibilities: [{name, compatibility}]}]
ShapeB(j) ==
    [shape |-> "list",
     entries |-> [r \in DOMAIN JRefSeq |->
                    Entry(JRefSeq[r], [d \in DOMAIN JDepSeq |->
                        Comp(JDepSeq[d], j[JRefSeq[r]][JDepSeq[d]], None)])]]

\* the judgments j as {"licenses": [{name, compatibilities: [{name, status}]}]}
ShapeC(j) ==
    [shape |-> "licenses",
     entries |-> [r \in DOMAIN JRefSeq |->
                    Entry(JRefSeq[r], [d \in DOMAIN JDepSeq |->
                        Comp(JDepSeq[d], None, j[JRefSeq[r]][JDepSeq[d]])])]]

ShapedResources ==
    UNION {{ShapeA(j), ShapeB(j), ShapeC(j)} : j \in JudgmentTables}

GPL3_WITH_Exc == GPL3 \o S_WITH_sp \o Exc
MIT_WITH_Exc == MIT \o S_WITH_sp \o Exc
LGPL21_WITH_Exc == LGPL21 \o S_WITH_sp \o Exc
ISC_WITH_Exc == ISC \o S_WITH_sp \o Exc

\* words of the symbols handed to the normalizer
NormWords ==
    {<<"A">>, <<"+">>, <<"w","i","t","h">>, <<"W","i","t","h">>,
     <<"W","I","T","H">>, <<"w","i","T","H">>}

\* the words ws joined by single spaces
RECURSIVE JoinWords(_)
JoinWords(ws) ==
    IF Len(ws) = 0 THEN <<>>
    ELSE IF Len(ws) = 1 THEN ws[1]
    ELSE ws[1] \o sp \o JoinWords(Tail(ws))

\* the symbols of one to MaxWords words
NormPhrases == UNION {{JoinWords(ws) : ws \in [1..n -> NormWords]} : n \in 1..MaxWords}

\* identifiers in several letter cases, with and without the suffixes
NormIds ==
    {MIT, GPL3, lower(GPL3), <<"G","P","l","-","3",".","0">>, Apache2,
     GPL3orlater, lower(GPL3orlater), LGPL21orlater, X11, S_UNKNOWN}

\* symbols handed to the normalizer
NormInputs ==
    {None, <<>>, sp, <<"\t", " ">>}
    \cup NormPhrases
    \cup {sp \o w \o <<" ", "\t">> : w \in NormWords}
    \cup NormIds
    \cup {sp \o x \o sp : x \in NormIds}
    \cup {x \o S_plus : x \in NormIds}
    \cup {x \o S_plus \o S_WITH_sp \o Exc : x \in NormIds}
    \cup {MIT \o k \o Exc : k \in {S_with_sp, S_With_sp, S_WITH_sp, S_with, S_WITH,
                                    <<" ","w","i","T","H"," ">>, <<"w","i","t","h">>,
                                    <<"\t","w","i","t","h","\t">>}}

\* main licenses handed to the evaluator
EvalMains == {MIT, GPL3}

\* single license identifiers
SingleIds == {MIT, GPL3, GPL3plus, Apache2, LGPL21, ISC, X11}

E_GPL3_OR_Apache2 == GPL3 \o sp \o W_OR \o sp \o Apache2
E_MIT_AND_GPL3 == MIT \o sp \o W_AND \o sp \o GPL3
E_Paren_OR_AND ==
    <<"(">> \o GPL3 \o sp \o W_OR \o sp \o Apache2 \o <<")">> \o sp \o W_AND \o sp \o MIT

\* expressions whose parse is handed to the evaluator
ParseExprs == SingleIds \cup {E_GPL3_OR_Apache2, E_MIT_AND_GPL3, E_Paren_OR_AND}

\* leaf symbols of single-leaf trees
LeafSymbols ==
    {MIT, GPL3, Apache2, LGPL21, ISC, GPL3orlater,
     GPL3_WITH_Exc, MIT_WITH_Exc, LGPL21_WITH_Exc, ISC_WITH_Exc}

\* arguments of the lookups
LookupMains == EvalMains \cup {X11, GPL3plus, GPL3orlater}

LookupDeps == LeafSymbols \cup {GPL3plus, X11, sp \o MIT \o sp}

\* operands of the operator nodes of the trees handed to the evaluator
Operands == {Leaf(MIT), Leaf(GPL3_WITH_Exc), NoneNode}

\* the trees with exactly n operator nodes
RECURSIVE TreesOf(_)
TreesOf(n) ==
    IF n = 0 THEN Operands
    ELSE UNION {
            {And(l, r) : l \in TreesOf(i), r \in TreesOf(n - 1 - i)} \cup
            {Or(l, r) : l \in TreesOf(i), r \in TreesOf(n - 1 - i)}
            : i \in 0..(n - 1)}

\* operands of every verdict against MIT, and the trees (A op B) op C over them
ChainOperands == {Leaf(MIT), Leaf(GPL3), Leaf(LGPL21), NoneNode}

ChainTrees ==
    {And(And(x, y), z) : x, y, z \in ChainOperands}
    \cup {Or(Or(x, y), z) : x, y, z \in ChainOperands}

EvalTrees ==
    {Leaf(v) : v \in LeafSymbols} \cup {parse_spdx(e) : e \in ParseExprs}
    \cup UNION {TreesOf(n) : n \in 0..MaxOps} \cup ChainTrees

\* words of the expressions handed to the parser
TokenWords ==
    {MIT, GPL3plus, W_AND, <<"o","r">>, <<"(">>, <<")">>}

\* the expressions of one to MaxTokens words
TokenPhrases ==
    UNION {{JoinWords(ws) : ws \in [1..n -> TokenWords]} : n \in 1..MaxTokens}

\* spellings of the operator keywords
AndSpellings == {W_AND, <<"a","n","d">>, <<"A","n","d">>}
OrSpellings == {W_OR, <<"o","r">>, <<"o","R">>}
OpSpellings == AndSpellings \cup OrSpellings

\* three operands and two operators, without and with parentheses
Flat(o1, o2) == MIT \o sp \o o1 \o sp \o GPL3plus \o sp \o o2 \o sp \o Apache2

ParenLeft(o1, o2) ==
    <<"(">> \o MIT \o sp \o o1 \o sp \o GPL3plus \o <<")">> \o sp \o o2 \o sp \o Apache2

ParenRight(o1, o2) ==
    MIT \o sp \o o1 \o sp \o <<"(">> \o GPL3plus \o sp \o o2 \o sp \o Apache2 \o <<")">>

PrecedenceExprs ==
    UNION {{Flat(o1, o2), ParenLeft(o1, o2), ParenRight(o1, o2)} :
              o1 \in OpSpellings, o2 \in OpSpellings}

\* "MIT with Exc AND GPL-3.0" and "MIT WITH Exc WITH Exc"
E_With_AND == MIT \o S_with_sp \o Exc \o sp \o W_AND \o sp \o GPL3
E_With_Chain == MIT \o S_WITH_sp \o Exc \o S_WITH_sp \o Exc

\* a WITH with both operands, chained, and with an operand missing
WithExprs ==
    {MIT \o S_With_sp \o Exc, E_With_AND, E_With_Chain,
     <<"W","i","t","h">> \o sp \o MIT, MIT \o sp \o <<"W","i","t","h">>,
     <<"W","i","t","h">>}

\* a "(" that is never closed, before the expression and inside it
OpenFlat(o1, o2) == <<"(">> \o Flat(o1, o2)

OpenRight(o1, o2) ==
    MIT \o sp \o o1 \o sp \o <<"(">> \o GPL3plus \o sp \o o2 \o sp \o Apache2

UnmatchedExprs ==
    {<<"(">> \o MIT, <<"(", "(">> \o MIT}
    \cup UNION {{OpenFlat(o1, o2), OpenRight(o1, o2)} :
                   o1 \in OpSpellings, o2 \in OpSpellings}

\* expressions handed to the parser
ParseInputs ==
    {None, <<>>, sp} \cup TokenPhrases \cup PrecedenceExprs \cup WithExprs
    \cup UnmatchedExprs

\* main licenses handed to the checker
CheckMains ==
    {None, <<>>, S_UNKNOWN, S_NONE, sp \o S_NONE \o sp, S_NOASSERTION,
     MIT, GPL3plus, X11}

\* file expressions handed to the checker
CheckExprs ==
    {None, <<>>, <<" ", "\t">>, MIT,
     sp \o E_GPL3_OR_Apache2 \o sp,
     E_MIT_AND_GPL3 \o S_with_sp \o Exc,
     LGPL21,
     <<"(">> \o MIT \o sp \o W_AND}

PathSeq == <<"a.py", "b.py", "c.py">>

\* the paths of n files, inserted in the order of their names and against it
PathOrders(n) == {[i \in 1..n |-> PathSeq[i]], [i \in 1..n |-> PathSeq[n + 1 - i]]}

\* dicts of at most MaxFiles files, as their items in insertion order
FileMaps ==
    UNION {{[i \in 1..n |-> [path |-> o[i], expr |-> e[i]]] :
               o \in PathOrders(n), e \in [1..n -> CheckExprs]}
           : n \in 0..MaxFiles}

(***************************************************************************)
(* The program: the matrix is loaded once at import; afterwards the        *)
(* library's functions are called one at a time.  call holds the call in   *)
(* hand with its arguments and its result, until the caller takes the      *)
(* result (Return).                                                        *)
(***************************************************************************)
Idle == [op |-> "idle"]

Init ==
    /\ matrix \in {load_professional_matrix(r) : r \in Resources}
    /\ call = Idle

CombineAnd ==
    /\ call = Idle
    /\ \E a, b \in Tri :
          call' = [op |-> "_combine_and", a |-> a, b |-> b, out |-> _combine_and(a, b)]
    /\ UNCHANGED matrix

CombineOr ==
    /\ call = Idle
    /\ \E a, b \in Tri :
          call' = [op |-> "_combine_or", a |-> a, b |-> b, out |-> _combine_or(a, b)]
    /\ UNCHANGED matrix

LookupStatus ==
    /\ call = Idle
    /\ \E m \in LookupMains, d \in LookupDeps :
          call' = [op |-> "_lookup_status", main_license |-> m, dep_license |-> d,
                   out |-> _lookup_status(m, d)]
    /\ UNCHANGED matrix

LegacyEvalNode ==
    /\ call = Idle
    /\ \E m \in EvalMains, n \in EvalTrees :
          call' = [op |-> "_eval_node", main_license |-> m, node |-> n,
                   out |-> _eval_node(m, n)]
    /\ UNCHANGED matrix

EvalNode ==
    /\ call = Idle
    /\ \E m \in EvalMains, n \in EvalTrees :
          call' = [op |-> "eval_node", main_license |-> m, node |-> n,
                   out |-> eval_node(m, n)]
    /\ UNCHANGED matrix

CheckCompatibility ==
    /\ call = Idle
    /\ \E m \in CheckMains, f \in FileMaps :
          call' = [op |-> "check_compatibility", main_license |-> m,
                   file_licenses |-> f, out |-> check_compatibility(m, f)]
    /\ UNCHANGED matrix

LoadProfessionalMatrix ==
    /\ call = Idle
    /\ \E r \in Resources \cup ShapedResources :
          call' = [op |-> "load_professional_matrix", data |-> r,
                   out |-> load_professional_matrix(r)]
    /\ UNCHANGED matrix

NormalizeSymbol ==
    /\ call = Idle
    /\ \E s \in NormInputs :
          call' = [op |-> "normalize_symbol", sym |-> s, out |-> normalize_symbol(s)]
    /\ UNCHANGED matrix

ParseSpdx ==
    /\ call = Idle
    /\ \E e \in ParseInputs :
          call' = [op |-> "parse_spdx", expr |-> e, tokens |-> _tokenize(e),
                   out |-> parse_spdx(e)]
    /\ UNCHANGED matrix

Return ==
    /\ call # Idle
    /\ call' = Idle
    /\ UNCHANGED matrix

Next ==
    \/ CombineAnd
    \/ CombineOr
    \/ LookupStatus
    \/ LegacyEvalNode
    \/ EvalNode
    \/ CheckCompatibility
    \/ NormalizeSymbol
    \/ LoadProfessionalMatrix
    \/ ParseSpdx
    \/ Return

Spec == Init /\ [][Next]_vars

(***************************************************************************)
(* Concurrent callers.  Several threads run check_compatibility at once on *)
(* the matrix loaded at import.  Here call maps every thread to its frame: *)
(* its arguments, its local variables and its position in the function.    *)
(* A step is the code between two reads of the shared matrix.              *)
(***************************************************************************)
Threads == {"t1", "t2"}

IdleThread == [pc |-> "idle"]

\* issues = []; main_license_n = normalize_symbol(main_license)
_begin(main_license, file_licenses) ==
    [pc |-> "branch", main_license |-> main_license, file_licenses |-> file_licenses,
     main_license_n |-> normalize_symbol(main_license), issues |-> <<>>]

\* matrix = get_matrix() and the two if statements that choose the loop
_branch(th) ==
    IF th.main_license_n \in {None, <<>>, S_UNKNOWN, S_NOASSERTION, S_NONE}
    THEN "sentinel"
    ELSE IF get_matrix = EmptyDict \/ th.main_license_n \notin DOMAIN get_matrix
    THEN "uncovered"
    ELSE "normal"

\* the dict a pass of the running loop appends for the file item
_loop_issue(th, item) ==
    IF th.pc = "sentinel"
    THEN Issue(item.path, item.expr, FALSE, ReasonMainInvalid)
    ELSE IF th.pc = "uncovered"
    THEN Issue(item.path, item.expr, FALSE, ReasonNotInMatrix)
    ELSE _check_file(th.main_license_n, item).issue

\* issues.append({...}) as it would be on a list shared by all the frames
_append_shared(frames, t, issue) ==
    [u \in DOMAIN frames |->
        IF frames[u].pc \in {"sentinel", "uncovered", "normal"}
        THEN [frames[u] EXCEPT !.issues = Append(@, issue)]
        ELSE frames[u]]

\* issues.append({...}) in the frame of thread t
_append(frames, t, issue) == [frames EXCEPT ![t].issues = Append(@, issue)]

\* the return statement of the running loop
_return(th) ==
    [main_license |->
        IF th.pc = "sentinel"
        THEN (IF th.main_license \in {None, <<>>} THEN S_UNKNOWN ELSE th.main_license)
        ELSE th.main_license_n,
     issues |-> th.issues]

\* arguments of the concurrent calls
ConcMains == {MIT, S_UNKNOWN, X11}

ConcExprs == {MIT, sp \o E_GPL3_OR_Apache2 \o sp}

ConcFileMaps ==
    UNION {{[i \in 1..n |-> [path |-> PathSeq[i], expr |-> e[i]]] :
               e \in [1..n -> ConcExprs]}
           : n \in 0..MaxFiles}

ConcInit ==
    /\ matrix \in {load_professional_matrix(r) : r \in Resources}
    /\ call = [t \in Threads |-> IdleThread]

CheckStart ==
    \E t \in Threads :
        /\ call[t] = IdleThread
        /\ \E m \in ConcMains, f \in ConcFileMaps :
              call' = [call EXCEPT ![t] = _begin(m, f)]
        /\ UNCHANGED matrix

CheckBranch ==
    \E t \in Threads :
        /\ call[t].pc = "branch"
        /\ call' = [call EXCEPT ![t].pc = _branch(call[t])]
        /\ UNCHANGED matrix

CheckFile ==
    \E t \in Threads :
        /\ call[t].pc \in {"sentinel", "uncovered", "normal"}
        /\ Len(call[t].issues) < Len(call[t].file_licenses)
        /\ call' = _append(call, t,
                       _loop_issue(call[t],
                                   call[t].file_licenses[Len(call[t].issues) + 1]))
        /\ UNCHANGED matrix

CheckReturn ==
    \E t \in Threads :
        /\ call[t].pc \in {"sentinel", "uncovered", "normal"}
        /\ Len(call[t].issues) = Len(call[t].file_licenses)
        /\ call' = [call EXCEPT ![t] =
                       [pc |-> "done", main_license |-> call[t].main_license,
                        file_licenses |-> call[t].file_licenses,
                        out |-> _return(call[t])]]
        /\ UNCHANGED matrix

TakeResult ==
    \E t \in Threads :
        /\ call[t].pc = "done"
        /\ call' = [call EXCEPT ![t] = IdleThread]
        /\ UNCHANGED matrix

ConcNext ==
    \/ CheckStart
    \/ CheckBranch
    \/ CheckFile
    \/ CheckReturn
    \/ TakeResult

ConcSpec == ConcInit /\ [][ConcNext]_vars

(***************************************************************************)
(* One expression, step by step.  _tokenize, parse_spdx and _eval_node run *)
(* one loop iteration or one function call per step.  Here call is the     *)
(* frame of the run: s, i, buf, tokens and out are the locals of           *)
(* _tokenize, idx is the index of parse_spdx, stack holds what the pending *)
(* calls of the recursive functions still have to do, val and res are the  *)
(* values the last call returned, visits counts the calls of _eval_node.   *)
(***************************************************************************)
\* words of the expressions run step by step
StepWords ==
    {MIT, W_AND, <<"o","r">>, <<"W","i","t","h">>, <<"(">>, <<")">>}

\* the expressions of at most MaxStepTokens words, and one with tabs,
\* doubled blanks and parentheses that touch their neighbours
StepExprs ==
    {None, <<>>, <<" ", "(", "A", "\t", " ", "o", "r", " ", "B", ")", "\t">>}
    \cup UNION {{JoinWords(ws) : ws \in [1..n -> StepWords]} : n \in 1..MaxStepTokens}

\* Leaf(t) for every token t of these expressions, and the candidates
\* _lookup_status makes of every leaf symbol, each computed once
StepTokens == UNION {Range(_tokenize(e)) : e \in StepExprs}

LeafOfToken == [t \in StepTokens |-> Leaf(t)]

CandidatesOf ==
    [v \in {LeafOfToken[t].value : t \in StepTokens} |->
        <<v, normalize_symbol(v), strip(v)>>]

StepIdle == [pc |-> "idle"]

NoResult == [status |-> "", trace |-> <<>>]

\* a pending call: what it does next, the node and the result it holds
Frame(k, node, l) == [k |-> k, node |-> node, l |-> l]

\* s = expr.strip(); tokens = []; buf = []; i = 0
_tokenize_begin(main_license, expr) ==
    [pc |-> "split", main_license |-> main_license, expr |-> expr,
     s |-> IF expr \in {None, <<>>} THEN <<>> ELSE strip(expr),
     i |-> 1, buf |-> <<>>, tokens |-> <<>>, out |-> <<>>,
     idx |-> 1, mode |-> "", fn |-> "", node |-> NoneNode, val |-> NoneNode,
     stack |-> <<>>, tree |-> NoneNode, visits |-> 0, res |-> NoResult]

\* if buf: tokens.append("".join(buf))
_flushed(tokens, buf) == IF buf # <<>> THEN Append(tokens, buf) ELSE tokens

\* one pass of the first while loop of _tokenize as it would be if the
\* whitespace branch did not advance i
_split_step_stuck(st) ==
    IF st.s[st.i] \in {"(", ")"}
    THEN [st EXCEPT !.tokens = Append(_flushed(st.tokens, st.buf), <<st.s[st.i]>>),
                    !.buf = <<>>, !.i = st.i + 1]
    ELSE IF st.s[st.i] \in Whitespace
    THEN [st EXCEPT !.tokens = _flushed(st.tokens, st.buf), !.buf = <<>>]
    ELSE [st EXCEPT !.buf = Append(st.buf, st.s[st.i]), !.i = st.i + 1]

\* one pass of the first while loop of _tokenize
_split_step(st) ==
    IF st.s[st.i] \in {"(", ")"}
    THEN [st EXCEPT !.tokens = Append(_flushed(st.tokens, st.buf), <<st.s[st.i]>>),
                    !.buf = <<>>, !.i = st.i + 1]
    ELSE IF st.s[st.i] \in Whitespace
    THEN [st EXCEPT !.tokens = _flushed(st.tokens, st.buf), !.buf = <<>>, !.i = st.i + 1]
    ELSE [st EXCEPT !.buf = Append(st.buf, st.s[st.i]), !.i = st.i + 1]

\* after the first loop: the last flush; out = []; i = 0
_split_end(st) ==
    [st EXCEPT !.pc = "merge", !.tokens = _flushed(st.tokens, st.buf),
               !.buf = <<>>, !.i = 1]

\* one pass of the second while loop of _tokenize
_merge_step(st) ==
    IF st.i + 2 <= Len(st.tokens) /\ upper(st.tokens[st.i + 1]) = W_WITH
    THEN [st EXCEPT !.out = Append(st.out, st.tokens[st.i] \o S_WITH_sp
                                            \o st.tokens[st.i + 2]),
                    !.i = st.i + 3]
    ELSE [st EXCEPT !.out = Append(st.out, st.tokens[st.i]), !.i = st.i + 1]

\* return out; in parse_spdx: if not tokens: return None; idx = 0; parse_or()
_merge_end(st) ==
    IF st.out = <<>>
    THEN [st EXCEPT !.pc = "eval", !.tokens = st.out, !.tree = NoneNode,
                    !.mode = "call", !.node = NoneNode]
    ELSE [st EXCEPT !.pc = "parse", !.tokens = st.out, !.idx = 1,
                    !.mode = "call", !.fn = "parse_or"]

\* the call of parse_or, parse_and or parse_primary that st.fn names
_parse_call(st) ==
    IF st.fn = "parse_or"
    THEN [st EXCEPT !.fn = "parse_and",
                    !.stack = Append(st.stack, Frame("or_left", NoneNode, NoResult))]
    ELSE IF st.fn = "parse_and"
    THEN [st EXCEPT !.fn = "parse_primary",
                    !.stack = Append(st.stack, Frame("and_left", NoneNode, NoResult))]
    ELSE IF peek(st.tokens, st.idx) = None
    THEN [st EXCEPT !.mode = "ret", !.val = NoneNode]
    ELSE IF peek(st.tokens, st.idx) = <<"(">>
    THEN [st EXCEPT !.idx = st.idx + 1, !.fn = "parse_or",
                    !.stack = Append(st.stack, Frame("paren", NoneNode, NoResult))]
    ELSE [st EXCEPT !.idx = st.idx + 1, !.mode = "ret",
                    !.val = LeafOfToken[peek(st.tokens, st.idx)]]

\* the test of the while loop of parse_and (word AND) or of parse_or (word
\* OR) with left in hand: consume the operator and call for the right
\* operand, or return left
_parse_loop(st, popped, left, word, fn, k) ==
    IF peek(st.tokens, st.idx) # None /\ upper(peek(st.tokens, st.idx)) = word
    THEN [st EXCEPT !.idx = st.idx + 1, !.mode = "call", !.fn = fn,
                    !.stack = Append(popped, Frame(k, left, NoResult))]
    ELSE [st EXCEPT !.stack = popped, !.val = left]

\* a call of the parser returns st.val to the pending call top
_parse_return(st, top, popped) ==
    IF top.k = "and_left"
    THEN _parse_loop(st, popped, st.val, W_AND, "parse_primary", "and_right")
    ELSE IF top.k = "and_right"
    THEN _parse_loop(st, popped, And(top.node, st.val), W_AND,
                     "parse_primary", "and_right")
    ELSE IF top.k = "or_left"
    THEN _parse_loop(st, popped, st.val, W_OR, "parse_and", "or_right")
    ELSE IF top.k = "or_right"
    THEN _parse_loop(st, popped, Or(top.node, st.val), W_OR, "parse_and", "or_right")
    ELSE IF peek(st.tokens, st.idx) = <<")">>
    THEN [st EXCEPT !.idx = st.idx + 1, !.stack = popped]
    ELSE [st EXCEPT !.stack = popped]

\* parse_spdx returns; _eval_node is called on the tree
_parse_end(st) ==
    [st EXCEPT !.pc = "eval", !.tree = st.val, !.mode = "call", !.node = st.val]

\* a call of _eval_node on st.node
_eval_call(st) ==
    IF st.node = NoneNode
    THEN [st EXCEPT !.visits = st.visits + 1, !.mode = "ret",
                    !.res = [status |-> "unknown", trace |-> <<LineMissing>>]]
    ELSE IF st.node.tag = "Leaf"
    THEN [st EXCEPT !.visits = st.visits + 1, !.mode = "ret",
                    !.res = _leaf_result(st.node.value,
                                _lookup_candidates(st.main_license,
                                                   CandidatesOf[st.node.value]),
                                st.main_license)]
    ELSE [st EXCEPT !.visits = st.visits + 1, !.node = st.node.left,
                    !.stack = Append(st.stack, Frame("left", st.node, NoResult))]

\* a call of _eval_node returns st.res to the pending call top
_eval_return(st, top, popped) ==
    IF top.k = "left"
    THEN [st EXCEPT !.mode = "call", !.node = top.node.right,
                    !.stack = Append(popped, Frame("right", top.node, st.res))]
    ELSE IF top.node.tag = "And"
    THEN [st EXCEPT !.stack = popped, !.res = _and_result(top.l, st.res, <<>>)]
    ELSE [st EXCEPT !.stack = popped, !.res = _or_result(top.l, st.res)]

StepInit ==
    /\ matrix \in {load_professional_matrix(r) : r \in Resources}
    /\ call = StepIdle

StepStart ==
    /\ call = StepIdle
    /\ \E e \in StepExprs : call' = _tokenize_begin(MIT, e)
    /\ UNCHANGED matrix

SplitStep ==
    /\ call.pc = "split"
    /\ call.i <= Len(call.s)
    /\ call' = _split_step(call)
    /\ UNCHANGED matrix

SplitEnd ==
    /\ call.pc = "split"
    /\ call.i > Len(call.s)
    /\ call' = _split_end(call)
    /\ UNCHANGED matrix

MergeStep ==
    /\ call.pc = "merge"
    /\ call.i <= Len(call.tokens)
    /\ call' = _merge_step(call)
    /\ UNCHANGED matrix

MergeEnd ==
    /\ call.pc = "merge"
    /\ call.i > Len(call.tokens)
    /\ call' = _merge_end(call)
    /\ UNCHANGED matrix

ParseCall ==
    /\ call.pc = "parse"
    /\ call.mode = "call"
    /\ call' = _parse_call(call)
    /\ UNCHANGED matrix

ParseReturn ==
    /\ call.pc = "parse"
    /\ call.mode = "ret"
    /\ call.stack # <<>>
    /\ call' = _parse_return(call, call.stack[Len(call.stack)],
                             SubSeq(call.stack, 1, Len(call.stack) - 1))
    /\ UNCHANGED matrix

ParseEnd ==
    /\ call.pc = "parse"
    /\ call.mode = "ret"
    /\ call.stack = <<>>
    /\ call' = _parse_end(call)
    /\ UNCHANGED matrix

EvalCall ==
    /\ call.pc = "eval"
    /\ call.mode = "call"
    /\ call' = _eval_call(call)
    /\ UNCHANGED matrix

EvalReturn ==
    /\ call.pc = "eval"
    /\ call.mode = "ret"
    /\ call.stack # <<>>
    /\ call' = _eval_return(call, call.stack[Len(call.stack)],
                            SubSeq(call.stack, 1, Len(call.stack) - 1))
    /\ UNCHANGED matrix

EvalEnd ==
    /\ call.pc = "eval"
    /\ call.mode = "ret"
    /\ call.stack = <<>>
    /\ call' = [call EXCEPT !.pc = "done"]
    /\ UNCHANGED matrix

StepReturn ==
    /\ call.pc = "done"
    /\ call' = StepIdle
    /\ UNCHANGED matrix

\* the steps of a run that has begun
StepRun ==
    \/ SplitStep
    \/ SplitEnd
    \/ MergeStep
    \/ MergeEnd
    \/ ParseCall
    \/ ParseReturn
    \/ ParseEnd
    \/ EvalCall
    \/ EvalReturn
    \/ EvalEnd
    \/ StepReturn

StepNext == StepStart \/ StepRun

\* the interpreter runs a call that has begun to its end
StepSpec == StepInit /\ [][StepNext]_vars /\ WF_vars(StepRun)

(***************************************************************************)
(* Properties.  The tables and the matrix verdict are stated here from the *)
(* specification, independently of the operators above.                    *)
(***************************************************************************)
\* the AND table, rows left, columns right
ANDTable ==
    [a \in Tri |-> [b \in Tri |->
        CASE a = "yes" /\ b = "yes" -> "yes"
          [] a = "yes" /\ b = "no" -> "no"
          [] a = "yes" /\ b = "conditional" -> "conditional"
          [] a = "yes" /\ b = "unknown" -> "conditional"
          [] a = "no" /\ b = "yes" -> "no"
          [] a = "no" /\ b = "no" -> "no"
          [] a = "no" /\ b = "conditional" -> "no"
          [] a = "no" /\ b = "unknown" -> "no"
          [] a = "conditional" /\ b = "yes" -> "conditional"
          [] a = "conditional" /\ b = "no" -> "no"
          [] a = "conditional" /\ b = "conditional" -> "conditional"
          [] a = "conditional" /\ b = "unknown" -> "conditional"
          [] a = "unknown" /\ b = "yes" -> "conditional"
          [] a = "unknown" /\ b = "no" -> "no"
          [] a = "unknown" /\ b = "conditional" -> "conditional"
          [] a = "unknown" /\ b = "unknown" -> "conditional"]]

\* the OR table, rows left, columns right
ORTable ==
    [a \in Tri |-> [b \in Tri |->
        CASE a = "yes" /\ b = "yes" -> "yes"
          [] a = "yes" /\ b = "no" -> "yes"
          [] a = "yes" /\ b = "conditional" -> "yes"
          [] a = "yes" /\ b = "unknown" -> "yes"
          [] a = "no" /\ b = "yes" -> "yes"
          [] a = "no" /\ b = "no" -> "no"
          [] a = "no" /\ b = "conditional" -> "conditional"
          [] a = "no" /\ b = "unknown" -> "conditional"
          [] a = "conditional" /\ b = "yes" -> "yes"
          [] a = "conditional" /\ b = "no" -> "conditional"
          [] a = "conditional" /\ b = "conditional" -> "conditional"
          [] a = "conditional" /\ b = "unknown" -> "conditional"
          [] a = "unknown" /\ b = "yes" -> "yes"
          [] a = "unknown" /\ b = "no" -> "conditional"
          [] a = "unknown" /\ b = "conditional" -> "conditional"
          [] a = "unknown" /\ b = "unknown" -> "conditional"]]

\* the verdict the matrix holds for (ref, dep), both already normalized
MatrixVerdict(ref, dep) ==
    IF /\ ref \in DOMAIN matrix
       /\ dep \in DOMAIN matrix[ref]
       /\ matrix[ref][dep] \in {"yes", "no", "conditional"}
    THEN matrix[ref][dep]
    ELSE "unknown"

\* the matrix holds the judgments of the scenario matrix
ScenarioMatrix ==
    /\ MatrixVerdict(MIT, MIT) = "yes"
    /\ MatrixVerdict(MIT, Apache2) = "yes"
    /\ MatrixVerdict(MIT, GPL3) = "no"

IsEval == call.op \in {"_eval_node", "eval_node"}

\* the tree the parser returns for each expression handed to the evaluator
Parsed == [e \in ParseExprs |-> parse_spdx(e)]

\* the reference of each check, normalized
Normalized == [m \in CheckMains |-> normalize_symbol(m)]

\* the evaluator of the call in hand, applied to a subtree
EvalOf(node) ==
    IF call.op = "_eval_node" THEN _eval_node(call.main_license, node)
    ELSE eval_node(call.main_license, node)

\* C1: for every pair (a, b) of verdicts the AND combination is No if a or b
\* is No, Yes if both are Yes and Conditional otherwise, which is the AND
\* table cell by cell.
C1_AndTable ==
    call.op = "_combine_and" =>
        /\ call.out = ANDTable[call.a][call.b]
        /\ call.out = (IF call.a = "no" \/ call.b = "no" THEN "no"
                       ELSE IF call.a = "yes" /\ call.b = "yes" THEN "yes"
                       ELSE "conditional")

C1_Witness ==
    /\ call.op = "_combine_and"
    /\ call.a = "unknown"
    /\ call.b = "unknown"
    /\ call.out = "conditional"

\* C2: for every pair (a, b) of verdicts the OR combination is Yes if a or b
\* is Yes, No only if both are No and Conditional otherwise, which is the OR
\* table cell by cell.
C2_OrTable ==
    call.op = "_combine_or" =>
        /\ call.out = ORTable[call.a][call.b]
        /\ call.out = (IF call.a = "yes" \/ call.b = "yes" THEN "yes"
                       ELSE IF call.a = "no" /\ call.b = "no" THEN "no"
                       ELSE "conditional")

C2_Witness ==
    /\ call.op = "_combine_or"
    /\ call.a = "no"
    /\ call.b = "unknown"
    /\ call.out = "conditional"

\* the leaves "B WITH E" with their base B
ExceptionLeaves ==
    {[symbol |-> GPL3_WITH_Exc, base |-> GPL3], [symbol |-> MIT_WITH_Exc, base |-> MIT],
     [symbol |-> LGPL21_WITH_Exc, base |-> LGPL21], [symbol |-> ISC_WITH_Exc, base |-> ISC]}

C4_SingleLeaf ==
    IsEval =>
        \A x \in SingleIds :
            call.node = Parsed[x] =>
                call.out.status = MatrixVerdict(call.main_license, normalize_symbol(x))

C4_Witness ==
    /\ call.op = "_eval_node"
    /\ call.main_license = MIT
    /\ call.node = Parsed[LGPL21]
    /\ call.out.status = "conditional"

\* number of lines of the given kind in a trace
NumLines(trace, kind) == Cardinality({k \in DOMAIN trace : trace[k].kind = kind})

\* the trace begins with the traces of both operands, left first
HasBothTraces(trace, l, r) ==
    /\ Len(trace) > Len(l.trace) + Len(r.trace)
    /\ SubSeq(trace, 1, Len(l.trace)) = l.trace
    /\ SubSeq(trace, Len(l.trace) + 1, Len(l.trace) + Len(r.trace)) = r.trace

\* out is the table's combination of the operands' results l and r
Combines(table, out, l, r) ==
    /\ out.status = table[l.status][r.status]
    /\ HasBothTraces(out.trace, l, r)

\* C5: the verdict of And(l, r) is the AND-table combination of the verdicts
\* of l and r, that of Or(l, r) the OR-table combination, both operands being
\* evaluated in full; "(A OR B) AND C" makes one AND combination whose left
\* operand is the verdict of the OR subtree; against MIT, "GPL-3.0 OR
\* Apache-2.0" is Yes and "MIT AND GPL-3.0" is No.
C5_OperatorsCombineChildren ==
    IsEval =>
        /\ call.node.tag = "And" =>
              Combines(ANDTable, call.out, EvalOf(call.node.left), EvalOf(call.node.right))
        /\ call.node.tag = "Or" =>
              Combines(ORTable, call.out, EvalOf(call.node.left), EvalOf(call.node.right))
        /\ call.node = Parsed[E_Paren_OR_AND] =>
              /\ NumLines(call.out.trace, "AND") = 1
              /\ NumLines(call.out.trace, "OR") = 1
              /\ call.out.status =
                     ANDTable[ORTable[MatrixVerdict(call.main_license, GPL3)]
                                     [MatrixVerdict(call.main_license, Apache2)]]
                             [MatrixVerdict(call.main_license, MIT)]
        /\ (ScenarioMatrix /\ call.main_license = MIT) =>
              /\ call.node = Parsed[E_GPL3_OR_Apache2] => call.out.status = "yes"
              /\ call.node = Parsed[E_MIT_AND_GPL3] => call.out.status = "no"

C5_Witness ==
    /\ call.op = "_eval_node"
    /\ ScenarioMatrix
    /\ call.main_license = MIT
    /\ call.node = Parsed[E_Paren_OR_AND]
    /\ call.node.tag = "And"
    /\ call.node.left.tag = "Or"
    /\ call.out.status = "yes"

\* every Leaf symbol reachable in a tree, left to right
RECURSIVE LeavesOf(_)
LeavesOf(node) ==
    IF node.tag = "Leaf" THEN <<node.value>>
    ELSE IF node.tag \in {"And", "Or"} THEN LeavesOf(node.left) \o LeavesOf(node.right)
    ELSE <<>>

Occurrences(s, v) == Cardinality({k \in DOMAIN s : s[k] = v})

\* number of "Cross compatibility: x vs y" lines in a trace
CrossLines(trace, x, y) ==
    Cardinality({k \in DOMAIN trace :
                    trace[k].kind = "cross" /\ trace[k].x = x /\ trace[k].y = y})

\* the lines for (x, y) that a node adds to the traces l and r of its operands
OwnCross(trace, l, r, x, y) ==
    CrossLines(trace, x, y) - CrossLines(l, x, y) - CrossLines(r, x, y)

OwnCrossTotal(trace, l, r) ==
    NumLines(trace, "cross") - NumLines(l, "cross") - NumLines(r, "cross")

\* the node adds one line for each pair of a symbol of ls and a symbol of rs
OnePerPair(trace, l, r, ls, rs) ==
    /\ OwnCrossTotal(trace, l, r) = Len(ls) * Len(rs)
    /\ \A i \in DOMAIN ls, j \in DOMAIN rs :
          OwnCross(trace, l, r, ls[i], rs[j])
          = Occurrences(ls, ls[i]) * Occurrences(rs, rs[j])

IsCheck == call.op = "check_compatibility"

\* the normalized reference of the check_compatibility call in hand
RefN == Normalized[call.main_license]

IsSentinel(ref) == ref \in {None, <<>>, S_UNKNOWN, S_NOASSERTION, S_NONE}

\* the reference is covered by the matrix
Covered == ~IsSentinel(RefN) /\ RefN \in DOMAIN matrix

\* the verdict of the i-th file's expression against the reference
EvaluatedVerdict(i) ==
    eval_node(RefN, parse_spdx(strip(IF call.file_licenses[i].expr = None THEN <<>>
                                      ELSE call.file_licenses[i].expr))).status

\* the outcome tags a reason carries
OutcomeTags(reason) ==
    {reason[k].status : k \in {j \in DOMAIN reason : reason[j].kind = "esito"}}

\* the issue is the one of an expression whose verdict is v
IssueOfVerdict(issue, v) ==
    /\ issue.compatible = (v = "yes")
    /\ OutcomeTags(issue.reason) =
           (IF v = "conditional" THEN {"conditional"}
            ELSE IF v = "unknown" THEN {"unknown"}
            ELSE {})

\* C7: for a reference covered by the matrix an issue is compatible exactly
\* when the evaluated verdict is Yes, and its reason carries an outcome tag
\* exactly for Conditional and for Unknown, a different one for each.
C7_CompatibleIffYes ==
    (IsCheck /\ Covered) =>
        \A i \in DOMAIN call.out.issues :
            IssueOfVerdict(call.out.issues[i], EvaluatedVerdict(i))

C7_Witness ==
    /\ IsCheck
    /\ Covered
    /\ Len(call.out.issues) = 2
    /\ EvaluatedVerdict(1) = "conditional"
    /\ ~call.out.issues[1].compatible
    /\ OutcomeTags(call.out.issues[1].reason) = {"conditional"}
    /\ EvaluatedVerdict(2) = "unknown"
    /\ OutcomeTags(call.out.issues[2].reason) = {"unknown"}

\* C8: for an empty reference or one of the markers UNKNOWN, NOASSERTION,
\* NONE, check returns one issue per file, each incompatible with the fixed
\* reason that the main license is not detected or invalid, and parses no
\* expression.
C8_SentinelReference ==
    (IsCheck /\ call.main_license \in {<<>>, S_UNKNOWN, S_NOASSERTION, S_NONE}) =>
        /\ Len(call.out.issues) = Len(call.file_licenses)
        /\ \A i \in DOMAIN call.out.issues :
              /\ call.out.issues[i].file_path = call.file_licenses[i].path
              /\ ~call.out.issues[i].compatible
              /\ call.out.issues[i].reason = ReasonMainInvalid
        /\ call.out.parsed = <<>>

C8_Witness ==
    /\ IsCheck
    /\ call.main_license = S_NOASSERTION
    /\ Len(call.file_licenses) = 2
    /\ call.file_licenses[1].expr = MIT
    /\ call.out.issues[1].reason = ReasonMainInvalid
    /\ call.out.issues[2].reason = ReasonMainInvalid

\* C9: for a reference that is no sentinel and whose normalized form has no
\* row in the matrix, check returns one issue per file, each incompatible
\* with the fixed reason that the reference is not covered, whatever the
\* expressions; the row test uses the normalized reference, so "GPL-3.0+"
\* uses the row "GPL-3.0-or-later".
C9_UncoveredReference ==
    IsCheck =>
        /\ (~IsSentinel(RefN) /\ RefN \notin DOMAIN matrix) =>
              /\ Len(call.out.issues) = Len(call.file_licenses)
              /\ \A i \in DOMAIN call.out.issues :
                    /\ ~call.out.issues[i].compatible
                    /\ call.out.issues[i].reason = ReasonNotInMatrix
              /\ call.out.parsed = <<>>
        /\ (call.main_license = GPL3plus /\ GPL3orlater \in DOMAIN matrix) =>
              \A i \in DOMAIN call.out.issues :
                  call.out.issues[i].reason # ReasonNotInMatrix

C9_Witness ==
    /\ IsCheck
    /\ call.main_license = X11
    /\ MIT \in DOMAIN matrix
    /\ Len(call.file_licenses) = 2
    /\ call.file_licenses[1].expr = MIT
    /\ call.file_licenses[2].expr = None
    /\ call.out.issues[1].reason = ReasonNotInMatrix
    /\ call.out.issues[2].reason = ReasonNotInMatrix

\* C10: on every branch of check the issues are one per entry of the file
\* map, the i-th issue carrying the i-th path of the map in insertion order.
C10_OneIssuePerFileInOrder ==
    IsCheck =>
        /\ Len(call.out.issues) = Len(call.file_licenses)
        /\ \A i \in DOMAIN call.file_licenses :
              call.out.issues[i].file_path = call.file_licenses[i].path

C10_Witness ==
    /\ IsCheck
    /\ Covered
    /\ Len(call.file_licenses) = 2
    /\ call.file_licenses[1].path = "b.py"
    /\ call.file_licenses[2].path = "a.py"
    /\ call.out.issues[1].file_path = "b.py"
    /\ call.out.issues[2].file_path = "a.py"

\* the expressions that are null, empty or whitespace only
BlankExprs == {None, <<>>, <<" ", "\t">>}

\* C11: for a covered reference a file whose expression is null, empty or
\* whitespace only is handled without raising: parse returns null, the
\* evaluator returns Unknown with the single line "missing or unrecognized
\* expression", and the issue is incompatible with the unknown outcome tag.
C11_BlankExpression ==
    /\ (IsCheck /\ Covered) =>
          \A i \in DOMAIN call.file_licenses :
              call.file_licenses[i].expr \in BlankExprs =>
                  /\ parse_spdx(call.out.parsed[i]) = NoneNode
                  /\ ~call.out.issues[i].compatible
                  /\ call.out.issues[i].reason = <<LineMissing, LineEsito("unknown")>>
    /\ (IsEval /\ call.node = NoneNode) =>
          call.out = [status |-> "unknown", trace |-> <<LineMissing>>]

C11_Witness ==
    /\ IsCheck
    /\ Covered
    /\ Len(call.file_licenses) = 2
    /\ call.file_licenses[1].expr = None
    /\ call.file_licenses[2].expr = <<" ", "\t">>
    /\ call.out.issues[1].reason = <<LineMissing, LineEsito("unknown")>>
    /\ call.out.issues[2].reason = <<LineMissing, LineEsito("unknown")>>

\* C12: in every issue of check, on the sentinel branch, the uncovered branch
\* and the normal branch, detected_license is the file's input expression
\* with its surrounding whitespace trimmed.
C12_DetectedLicenseTrimmed ==
    IsCheck =>
        \A i \in DOMAIN call.file_licenses :
            call.file_licenses[i].expr # None =>
                call.out.issues[i].detected_license = strip(call.file_licenses[i].expr)

IsNormalize == call.op = "normalize_symbol"

\* C13: normalize is idempotent: normalizing a normalized symbol changes
\* nothing, also for repeated "+", repeated or mixed-case "with" and
\* surrounding whitespace.
C13_NormalizeIdempotent ==
    IsNormalize => normalize_symbol(call.out) = call.out

\* the keyword with in several letter cases, with and without the spaces
\* around it
WithSpellings ==
    {S_with_sp, S_With_sp, S_WITH_sp, <<" ","w","i","T","H"," ">>, S_with, S_WITH,
     <<"w","i","t","h">>}

\* C14: normalize turns the keyword with, in any letter case and with or
\* without spaces around it, into " WITH " between the base identifier and
\* the exception.
C14_WithCanonical ==
    IsNormalize =>
        \A k \in WithSpellings :
            call.sym = MIT \o k \o Exc => call.out = MIT \o S_WITH_sp \o Exc

\* C15: for an identifier ID in any letter case without "-or-later",
\* normalize(ID + "+") is ID + "-or-later", the case of ID kept; an
\* identifier that already ends in "-or-later" is returned unchanged.
C15_PlusBecomesOrLater ==
    IsNormalize =>
        \A x \in NormIds :
            /\ (~Contains(x, S_or_later) /\ call.sym = x \o S_plus) =>
                  call.out = x \o S_or_later
            /\ (Contains(x, S_or_later) /\ call.sym = x) => call.out = x

C15_Witness ==
    /\ IsNormalize
    /\ call.sym = <<"g","p","l","-","3",".","0","+">>
    /\ call.out = <<"g","p","l","-","3",".","0","-","o","r","-","l","a","t","e","r">>

\* C16: normalize never fails: null gives null, the empty string gives the
\* empty string, and a symbol with neither "+" nor the keyword with is
\* returned unchanged but for the trimming of surrounding whitespace.
C16_NormalizePassThrough ==
    IsNormalize =>
        /\ call.sym = None => call.out = None
        /\ call.sym = <<>> => call.out = <<>>
        /\ (/\ call.sym # None
            /\ ~Contains(call.sym, S_plus)
            /\ ~Contains(lower(call.sym), <<"w","i","t","h">>)) =>
              call.out = strip(call.sym)

C16_Witness ==
    /\ IsNormalize
    /\ call.sym = sp \o Apache2 \o sp
    /\ call.out = Apache2

\* C17: the loaded matrix maps the status strings without regard to case
\* (yes and same to Yes, no to No, conditional to Conditional) and discards
\* every entry with another status: whatever the shape of the resource, no
\* entry of the loaded matrix holds Unknown.
C17_NoUnknownStored ==
    /\ _coerce_status(R_Yes) = "yes"
    /\ _coerce_status(R_Same) = "yes"
    /\ _coerce_status(R_NO_sp) = "no"
    /\ _coerce_status(R_Conditional) = "conditional"
    /\ \A ref \in DOMAIN matrix :
          \A dep \in DOMAIN matrix[ref] :
              matrix[ref][dep] \in {"yes", "no", "conditional"}

IsLoad == call.op = "load_professional_matrix"

\* the resources that are missing, unreadable or empty
UnusableResources == {ResourceAbsent, ResourceEmptyList, ResourceEmptyDict}

BSD2 == <<"B","S","D","-","2","-","C","l","a","u","s","e">>
BSD3 == <<"B","S","D","-","3","-","C","l","a","u","s","e">>

\* m holds the built-in table: MIT, Apache-2.0, BSD-2-Clause and
\* BSD-3-Clause mutually yes, GPL-3.0 yes with itself
HoldsFallback(m) ==
    /\ \A a, b \in {MIT, Apache2, BSD2, BSD3} :
          a \in DOMAIN m /\ b \in DOMAIN m[a] /\ m[a][b] = "yes"
    /\ GPL3 \in DOMAIN m /\ GPL3 \in DOMAIN m[GPL3] /\ m[GPL3][GPL3] = "yes"

IsLookup == call.op = "_lookup_status"

ShapesOf == [j \in JudgmentTables |-> <<ShapeA(j), ShapeB(j), ShapeC(j)>>]

LoadedShapes ==
    [j \in JudgmentTables |->
        [k \in 1..3 |-> load_professional_matrix(ShapesOf[j][k])]]

\* position of x in the sequence s
Idx(s, x) == CHOOSE i \in DOMAIN s : s[i] = x

\* the status a document of ShapedResources gives for the pair (r, d)
StatusIn(data, r, d) ==
    IF data.shape = "matrix"
    THEN data.rows[Idx(JRefSeq, r)].row[Idx(JDepSeq, d)].value
    ELSE IF data.shape = "list"
    THEN data.entries[Idx(JRefSeq, r)].compatibilities[Idx(JDepSeq, d)].compatibility
    ELSE data.entries[Idx(JRefSeq, r)].compatibilities[Idx(JDepSeq, d)].status

\* the judgment table a document of ShapedResources was written from
TableOf(data) ==
    [r \in Range(JRefSeq) |-> [d \in Range(JDepSeq) |-> StatusIn(data, r, d)]]

\* C20: a table of (reference, dependency, status) judgments written as
\* {"matrix": ...}, as a list of entries or as {"licenses": [...]} loads to
\* one and the same normalized matrix, and a self-pair written "Same" in the
\* list shape is loaded as "yes".
C20_ShapesLoadAlike ==
    (IsLoad /\ call.data \in ShapedResources) =>
        /\ \A k \in 1..3 : call.out = LoadedShapes[TableOf(call.data)][k]
        /\ \A r \in Range(JRefSeq) \cap Range(JDepSeq) :
              (call.data.shape = "list" /\ StatusIn(call.data, r, r) = R_Same)
              => call.out[normalize_symbol(r)][normalize_symbol(r)] = "yes"

C20_Witness ==
    /\ IsLoad
    /\ \E j \in JudgmentTables :
          /\ call.data = ShapesOf[j][2]
          /\ j[GPL3plus][GPL3plus] = R_Same
          /\ j[MIT][GPL3plus] = R_maybe
          /\ call.out[GPL3orlater][GPL3orlater] = "yes"

\* the {main_license, issues} dict of a check_compatibility call run alone
Alone(main_license, file_licenses) ==
    [main_license |-> check_compatibility(main_license, file_licenses).main_license,
     issues |-> check_compatibility(main_license, file_licenses).issues]

\* C21: no step of a check_compatibility call changes the matrix, and however
\* the steps of the concurrent calls interleave, every call that returns has
\* the result the same arguments give when the call runs alone.
C21_ConcurrentChecks ==
    [][/\ matrix' = matrix
       /\ \A t \in Threads :
             call'[t].pc = "done" =>
                 call'[t].out = Alone(call'[t].main_license, call'[t].file_licenses)]_vars

\* one call has returned two evaluated issues while the other call, with
\* another reference, is between the two passes of its loop
C21_Witness ==
    /\ call["t1"].pc = "done"
    /\ Len(call["t1"].out.issues) = 2
    /\ call["t1"].out.issues[1].compatible
    /\ call["t2"].pc = "sentinel"
    /\ Len(call["t2"].issues) = 1
    /\ Len(call["t2"].file_licenses) = 2

IsParse == call.op = "parse_spdx"

\* the leaves of MIT, GPL-3.0+ and Apache-2.0
LeafA == [tag |-> "Leaf", value |-> MIT]
LeafB == [tag |-> "Leaf", value |-> GPL3orlater]
LeafC == [tag |-> "Leaf", value |-> Apache2]

\* the node the keyword o stands for
OpNode(o, l, r) ==
    IF o \in AndSpellings THEN [tag |-> "And", left |-> l, right |-> r]
    ELSE [tag |-> "Or", left |-> l, right |-> r]

\* the tree of "A o1 B o2 C": AND before OR, otherwise from the left
FlatTree(o1, o2) ==
    IF o1 \in OrSpellings /\ o2 \in AndSpellings
    THEN OpNode(o1, LeafA, OpNode(o2, LeafB, LeafC))
    ELSE OpNode(o2, OpNode(o1, LeafA, LeafB), LeafC)

\* C22: AND binds tighter than OR, both group from the left, parentheses
\* override both, and the keywords are recognized in any letter case.
C22_Precedence ==
    IsParse =>
        \A o1 \in OpSpellings, o2 \in OpSpellings :
            /\ call.expr = Flat(o1, o2) => call.out = FlatTree(o1, o2)
            /\ call.expr = ParenLeft(o1, o2)
                  => call.out = OpNode(o2, OpNode(o1, LeafA, LeafB), LeafC)
            /\ call.expr = ParenRight(o1, o2)
                  => call.out = OpNode(o1, LeafA, OpNode(o2, LeafB, LeafC))

\* "MIT or GPL-3.0+ And Apache-2.0" has been parsed
C22_Witness ==
    /\ IsParse
    /\ call.expr = Flat(<<"o","r">>, <<"A","n","d">>)
    /\ call.out.tag = "Or"
    /\ call.out.right.tag = "And"

\* C23: after tokenization no token is the keyword WITH, no leaf of the tree
\* is the keyword WITH, and "MIT with Exc AND GPL-3.0" parses to
\* And(Leaf("MIT WITH Exc"), Leaf("GPL-3.0")).
C23_WithMerged ==
    IsParse =>
        /\ \A i \in DOMAIN call.tokens : upper(call.tokens[i]) # W_WITH
        /\ \A i \in DOMAIN LeavesOf(call.out) : upper(LeavesOf(call.out)[i]) # W_WITH
        /\ call.expr = E_With_AND
              => call.out = [tag |-> "And",
                             left |-> [tag |-> "Leaf", value |-> MIT_WITH_Exc],
                             right |-> [tag |-> "Leaf", value |-> GPL3]]

\* the parse of e and its evaluation are those of the expression closed
SameAsClosed(e, closed, tree) ==
    call.expr = e =>
        /\ call.out = tree
        /\ call.out = parse_spdx(closed)
        /\ \A m \in EvalMains : eval_node(m, call.out) = eval_node(m, parse_spdx(closed))

\* C24: an expression with a "(" that is never closed parses to the tree of
\* the same expression with the parenthesis closed at the end of the input
\* ("(A OR B" to the tree of "A OR B"), and so evaluates like it.
C24_UnmatchedParen ==
    IsParse =>
        /\ SameAsClosed(<<"(">> \o MIT, MIT, LeafA)
        /\ SameAsClosed(<<"(", "(">> \o MIT, MIT, LeafA)
        /\ \A o1 \in OpSpellings, o2 \in OpSpellings :
              /\ SameAsClosed(OpenFlat(o1, o2), Flat(o1, o2), FlatTree(o1, o2))
              /\ SameAsClosed(OpenRight(o1, o2), ParenRight(o1, o2),
                               OpNode(o1, LeafA, OpNode(o2, LeafB, LeafC)))

\* "(MIT OR GPL-3.0+ AND Apache-2.0" has been parsed
C24_Witness ==
    /\ IsParse
    /\ call.expr = OpenFlat(W_OR, W_AND)
    /\ call.out.tag = "Or"
    /\ call.out.left = LeafA

\* the call returned a dict with the reference and one issue per file
IsStructured ==
    /\ {"main_license", "issues"} \subseteq DOMAIN call.out
    /\ Len(call.out.issues) = Len(call.file_licenses)
    /\ \A i \in DOMAIN call.out.issues :
          call.out.issues[i].file_path = call.file_licenses[i].path

\* C25 as stated: a check_compatibility call with the reference None raises
\* the invalid reference license error, and every other call returns a
\* structured result.
C25_NullReferenceRaises ==
    IsCheck =>
        IF call.main_license = None
        THEN call.out = Raised("invalid reference license")
        ELSE IsStructured

\* C25 as the code has it: every check_compatibility call returns a
\* structured result; for the reference None the result names the reference
\* "UNKNOWN" and gives every file the invalid-reference reason.
C25_NullReferenceReturns ==
    IsCheck =>
        /\ IsStructured
        /\ call.main_license = None =>
              /\ call.out.main_license = S_UNKNOWN
              /\ \A i \in DOMAIN call.out.issues :
                    /\ ~call.out.issues[i].compatible
                    /\ call.out.issues[i].reason = ReasonMainInvalid

\* a call with the reference None and two files, one of them malformed
C25_Witness ==
    /\ IsCheck
    /\ call.main_license = None
    /\ Len(call.file_licenses) = 2
    /\ call.file_licenses[2].expr = <<"(">> \o MIT \o sp \o W_AND
    /\ call.out.main_license = S_UNKNOWN
    /\ Len(call.out.issues) = 2

\* trace is lt, then rt, then the node's own lines, of which the last is the
\* combination line and the others are cross-compatibility lines
InOrder(out, lt, rt, op) ==
    /\ Len(out.trace) > Len(lt) + Len(rt)
    /\ out.trace = lt \o rt \o SubSeq(out.trace, Len(lt) + Len(rt) + 1, Len(out.trace))
    /\ out.trace[Len(out.trace)] = LineOp(op, out.status)
    /\ \A k \in (Len(lt) + Len(rt) + 1)..(Len(out.trace) - 1) :
          out.trace[k].kind = "cross"
    /\ call.op = "_eval_node" => Len(out.trace) = Len(lt) + Len(rt) + 1

\* C26: the trace of an And or Or node is the trace of its left subtree, then
\* the trace of its right subtree, then the lines the node adds, the last of
\* which is its combination line.
C26_TraceOrder ==
    IsEval =>
        /\ call.node.tag = "And" =>
              InOrder(call.out, EvalOf(call.node.left).trace,
                      EvalOf(call.node.right).trace, "AND")
        /\ call.node.tag = "Or" =>
              InOrder(call.out, EvalOf(call.node.left).trace,
                      EvalOf(call.node.right).trace, "OR")

\* an Or node over an And node and a leaf has been evaluated
C26_Witness ==
    /\ IsEval
    /\ call.node.tag = "Or"
    /\ call.node.left.tag = "And"
    /\ call.node.right.tag = "Leaf"
    /\ Len(call.out.trace) >= 5
    /\ call.out.trace[Len(call.out.trace)].kind = "OR"
    /\ call.out.trace[Len(call.out.trace) - 2].kind = "AND"

\* every operator node of the tree has two operands that are trees
RECURSIVE NoMissingOperand(_)
NoMissingOperand(node) ==
    IF node.tag = "Leaf" THEN TRUE
    ELSE IF node.tag \in {"And", "Or"}
    THEN NoMissingOperand(node.left) /\ NoMissingOperand(node.right)
    ELSE FALSE

\* C27: parse_spdx returns None or a tree with at least one Leaf in which
\* every And node and every Or node has two operands, none of them None.
C27_NoMissingOperand ==
    IsParse =>
        \/ call.out = NoneNode
        \/ /\ Len(LeavesOf(call.out)) >= 1
           /\ NoMissingOperand(call.out)

\* number of _eval_node calls the tree takes: one per node, a missing
\* operand included
RECURSIVE NumNodes(_)
NumNodes(node) ==
    IF node.tag \in {"And", "Or"} THEN 1 + NumNodes(node.left) + NumNodes(node.right)
    ELSE 1

\* the run has ended with the results of the functions
EndsRight ==
    call.pc = "done" =>
        /\ call.tokens = _tokenize(call.expr)
        /\ call.tree = parse_spdx(call.expr)
        /\ call.res = _eval_node(call.main_license, call.tree)
        /\ call.visits = NumNodes(call.tree)

\* no step of the parser moves the token index back, and every step of
\* _tokenize moves its index forward
IndexAdvances ==
    /\ (call.pc = "parse" /\ call'.pc = "parse") => call'.idx >= call.idx
    /\ (call.pc = "split" /\ call'.pc = "split") => call'.i > call.i
    /\ (call.pc = "merge" /\ call'.pc = "merge") => call'.i > call.i

\* C28: for every expression the run of _tokenize, parse_spdx and _eval_node
\* comes to its end; the indexes of the loops only move forward, and
\* _eval_node is called once for every node of the tree.
C28_Terminates ==
    /\ (call.pc = "split") ~> (call.pc = "done")
    /\ [][IndexAdvances]_vars
    /\ []EndsRight

\* the run of an expression with a trailing operator has ended
C28_Witness ==
    /\ call.pc = "done"
    /\ Len(call.tokens) = 3
    /\ call.tree.tag = "And"
    /\ call.tree.right = NoneNode
    /\ call.visits = 3

\* the tokens of _tokenize that are neither an operator keyword nor a
\* parenthesis
IsIdentifier(t) ==
    /\ t \notin {<<"(">>, <<")">>}
    /\ upper(t) \notin {W_AND, W_OR, W_WITH}

\* a is b with some elements left out
RECURSIVE IsSubseq(_, _)
IsSubseq(a, b) ==
    IF a = <<>> THEN TRUE
    ELSE IF b = <<>> THEN FALSE
    ELSE IF Head(a) = Head(b) THEN IsSubseq(Tail(a), Tail(b))
    ELSE IsSubseq(a, Tail(b))

\* the Leaf symbols the identifiers of a token list stand for
RECURSIVE SymbolsOf(_)
SymbolsOf(tokens) ==
    IF tokens = <<>> THEN <<>>
    ELSE IF IsIdentifier(Head(tokens))
    THEN <<Leaf(Head(tokens)).value>> \o SymbolsOf(Tail(tokens))
    ELSE SymbolsOf(Tail(tokens))

\* C29: every token of an expression that is neither an operator keyword
\* nor a parenthesis is a Leaf of the tree parse_spdx returns, in the order
\* of the input.
C29_NoIdentifierDropped ==
    IsParse => IsSubseq(SymbolsOf(call.tokens), LeavesOf(call.out))

\* an operator node of the same kind as node
SameOp(node, l, r) == [tag |-> node.tag, left |-> l, right |-> r]

\* the call evaluates a tree of one operator over three operands
IsChainOfThree ==
    /\ call.op = "_eval_node"
    /\ call.node.tag \in {"And", "Or"}
    /\ call.node.left.tag = call.node.tag
    /\ call.node.right.tag \notin {"And", "Or"}
    /\ call.node.left.left.tag \notin {"And", "Or"}
    /\ call.node.left.right.tag \notin {"And", "Or"}

\* C30: _combine_and and _combine_or are commutative and associative over
\* the four verdicts, and the verdict of (A op B) op C is the verdict of
\* C op (B op A) and of A op (B op C).
C30_OrderAndGrouping ==
    /\ call.op = "_combine_and" =>
          /\ call.out = _combine_and(call.b, call.a)
          /\ \A c \in Tri :
                _combine_and(call.out, c) = _combine_and(call.a, _combine_and(call.b, c))
    /\ call.op = "_combine_or" =>
          /\ call.out = _combine_or(call.b, call.a)
          /\ \A c \in Tri :
                _combine_or(call.out, c) = _combine_or(call.a, _combine_or(call.b, c))
    /\ IsChainOfThree =>
          /\ _eval_node(call.main_license,
                 SameOp(call.node, call.node.right,
                        SameOp(call.node, call.node.left.right, call.node.left.left))).status
             = call.out.status
          /\ _eval_node(call.main_license,
                 SameOp(call.node, call.node.left.left,
                        SameOp(call.node, call.node.left.right, call.node.right))).status
             = call.out.status

\* (A AND B) AND C has been evaluated with a compatible first operand, a
\* second one of another verdict and an incompatible last one
C30_Witness ==
    /\ IsChainOfThree
    /\ call.node.tag = "And"
    /\ _eval_node(call.main_license, call.node.left.left).status = "yes"
    /\ _eval_node(call.main_license, call.node.left.right).status \notin {"yes", "no"}
    /\ _eval_node(call.main_license, call.node.right).status = "no"
    /\ call.out.status = "no"
====
